---------------------------- MODULE Spec2Model ----------------------------
(***************************************************************************)
(* charmap: bulk in-place token substitution over a directory tree.        *)
(*                                                                         *)
(* The model covers main.go's engine: buildNewReplacer (the token          *)
(* replacer built on strings.NewReplacer plus the leftover-placeholder     *)
(* check), processFile (read, stat, replace, conditional write) and        *)
(* processFiles (bounded channel, worker goroutines, walker goroutine,     *)
(* mutex-protected error slice, WaitGroup join); and the start of main:    *)
(* the command line with parseConfig, and fileFilter.match.                *)
(*                                                                         *)
(* Go strings are modelled as sequences of one-character strings; a Go     *)
(* index i (0-based) is position i+1 of the sequence.                      *)
(***************************************************************************)
EXTENDS Integers, Sequences, FiniteSets, TLC

(***************************************************************************)
(* Bounds of the model.                                                    *)
(***************************************************************************)
\* longest file content enumerated for the replacer specifications
MaxLen == 4
\* the scheduler specification's size: the most that -workers and the number
\* of directory entries add up to
MaxSize == 4

(***************************************************************************)
(* Configuration: delimiters, alphabet, candidate keys and values.         *)
(***************************************************************************)
\* cfg.OpenDelim, cfg.CloseDelim: literal, non-empty byte sequences
OpenDelim == <<"<">>
CloseDelim == <<">">>

Alphabet == {"<", ">", "a"}

\* candidate keys of cfg.KeyMap; the second contains the close delimiter,
\* so that the token of the first is a prefix of the token of the second
Keys == { <<"a">>, <<"a", ">">> }

\* candidate values: empty, plain, containing open, containing close
Vals == { <<>>, <<"a">>, <<"<">>, <<">">> }

\* every string over Alphabet of length at most n
Strings(n) == UNION { [1..k -> Alphabet] : k \in 0..n }

\* every map[string]string with keys among Keys and values among Vals
Mappings == UNION { [K -> Vals] : K \in SUBSET Keys }

(***************************************************************************)
(* Go string primitives.                                                   *)
(***************************************************************************)
\* s[a:b]
Slice(s, a, b) == SubSeq(s, a + 1, b)

\* s[a:]
SliceFrom(s, a) == SubSeq(s, a + 1, Len(s))

\* strings.HasPrefix / bytes.HasPrefix
HasPrefix(s, p) == Len(p) <= Len(s) /\ SubSeq(s, 1, Len(p)) = p

\* strings.Index / bytes.Index: first 0-based index of sub in s, or -1
Index(s, sub) ==
    LET hits == { i \in 0..(Len(s) - Len(sub)) : Slice(s, i, i + Len(sub)) = sub }
    IN  IF hits = {} THEN -1
        ELSE CHOOSE i \in hits : \A j \in hits : i <= j

(***************************************************************************)
(* strings.NewReplacer(pairs...).Replace.  pairs is the argument list as a *)
(* sequence of <<old, new>>; every old is open+key+close, so it has at     *)
(* least two bytes and the byte replacers are never selected.              *)
(***************************************************************************)
\* genericReplacer.lookup: among the olds that are a prefix of s, the one
\* with the highest priority, i.e. the earliest in argument order (0: none)
lookup(s, pairs) ==
    LET hits == { j \in 1..Len(pairs) : HasPrefix(s, pairs[j][1]) }
    IN  IF hits = {} THEN 0
        ELSE CHOOSE j \in hits : \A k \in hits : j <= k

\* genericReplacer.WriteString from byte i on: the output and the number
\* of replacements made
RECURSIVE genericScan(_, _, _)
genericScan(s, i, pairs) ==
    IF i >= Len(s) THEN [out |-> <<>>, n |-> 0]
    ELSE LET j == lookup(SliceFrom(s, i), pairs)
         IN  IF j # 0
             THEN LET r == genericScan(s, i + Len(pairs[j][1]), pairs)
                  IN  [out |-> pairs[j][2] \o r.out, n |-> r.n + 1]
             ELSE LET r == genericScan(s, i + 1, pairs)
                  IN  [out |-> <<s[i + 1]>> \o r.out, n |-> r.n]

\* singleStringReplacer.Replace from byte pos on (one pair, len(old) > 1)
RECURSIVE singleScan(_, _, _, _)
singleScan(s, pos, old, new) ==
    LET m == Index(SliceFrom(s, pos), old)
    IN  IF m = -1 THEN [out |-> SliceFrom(s, pos), n |-> 0]
        ELSE LET r == singleScan(s, pos + m + Len(old), old, new)
             IN  [out |-> Slice(s, pos, pos + m) \o new \o r.out, n |-> r.n + 1]

\* NewReplacer's choice of algorithm, then Replace
ReplacerScan(s, pairs) ==
    IF Len(pairs) = 0 THEN [out |-> s, n |-> 0]
    ELSE IF Len(pairs) = 1 THEN singleScan(s, 0, pairs[1][1], pairs[1][2])
    ELSE genericScan(s, 0, pairs)


(***************************************************************************)
(* buildNewReplacer.                                                       *)
(***************************************************************************)
\* the orders in which `for k, v := range values` can visit the map
KeyOrders(m) ==
    { o \in [1..Cardinality(DOMAIN m) -> DOMAIN m] :
        \A i, j \in DOMAIN o : i # j => o[i] # o[j] }

\* the oldnew argument lists buildNewReplacer can hand to strings.NewReplacer
PairLists(m) ==
    { [i \in DOMAIN o |-> <<OpenDelim \o o[i] \o CloseDelim, m[o[i]]>>] :
        o \in KeyOrders(m) }

\* strReplacer.Replace(string(txt))
Replace(txt, prs) == ReplacerScan(txt, prs).out

\* a faulty changed: reports a change for every content
ChangedAlways(out, txt) == TRUE

\* changed := out != string(txt)
Changed(out, txt) == out # txt

\* the leftover-placeholder check on the replaced text: the text between the
\* first open and the first close after it, as <<found, missing>>
Leftover(out) ==
    LET idx == Index(out, OpenDelim)
    IN  IF idx = -1 THEN <<FALSE, <<>>>>
        ELSE LET start == idx + Len(OpenDelim)
                 end == Index(SliceFrom(out, start), CloseDelim)
             IN  IF end = -1 THEN <<FALSE, <<>>>>
                 ELSE <<TRUE, Slice(out, start, start + end)>>

\* the closure fn returned by buildNewReplacer: ([]byte, bool, error)
replacer(txt, prs) ==
    LET out == Replace(txt, prs)
        left == Leftover(out)
    IN  IF left[1]
        THEN [ok |-> FALSE, out |-> <<>>, changed |-> FALSE, missing |-> left[2]]
        ELSE [ok |-> TRUE, out |-> out, changed |-> Changed(out, txt),
              missing |-> <<>>]

(***************************************************************************)
(* loopReplacer, the single-pass scanner the benchmark harness keeps as    *)
(* an alternative strategy.                                                *)
(***************************************************************************)
RECURSIVE loopScan(_, _, _)
loopScan(txt, i, values) ==
    IF i >= Len(txt) THEN [ok |-> TRUE, out |-> <<>>, n |-> 0, missing |-> <<>>]
    ELSE IF HasPrefix(SliceFrom(txt, i), OpenDelim)
    THEN LET start == i + Len(OpenDelim)
             end == Index(SliceFrom(txt, start), CloseDelim)
         IN  IF end < 0
             THEN [ok |-> TRUE, out |-> SliceFrom(txt, i), n |-> 0, missing |-> <<>>]
             ELSE LET key == Slice(txt, start, start + end)
                  IN  IF key \notin DOMAIN values
                      THEN [ok |-> FALSE, out |-> <<>>, n |-> 0, missing |-> key]
                      ELSE LET r == loopScan(txt, start + end + Len(CloseDelim), values)
                           IN  IF r.ok
                               THEN [r EXCEPT !.out = values[key] \o r.out,
                                              !.n = r.n + 1]
                               ELSE r
    ELSE LET r == loopScan(txt, i + 1, values)
         IN  IF r.ok THEN [r EXCEPT !.out = <<txt[i + 1]>> \o r.out] ELSE r

loopReplacer(txt, values) ==
    LET r == loopScan(txt, 0, values)
    IN  IF r.ok
        THEN [ok |-> TRUE, out |-> r.out, changed |-> r.n > 0, missing |-> <<>>]
        ELSE [ok |-> FALSE, out |-> <<>>, changed |-> FALSE, missing |-> r.missing]

(***************************************************************************)
(* fileFilter (lines 284-327).  A path is a sequence of path elements and  *)
(* separators; a compiled pattern is a set of alternatives, each a literal *)
(* that may be anchored at the start (^) and at the end ($) of the path.   *)
(***************************************************************************)
Alt(s, l, e) == [start |-> s, lit |-> l, end |-> e]

\* ^\.git(/|$), the default of -ignore
IgnoreGit == { Alt(TRUE, <<".git", "/">>, FALSE), Alt(TRUE, <<".git">>, TRUE) }

\* .*\.ya?ml$, the default of -include
IncludeYaml == { Alt(FALSE, <<".yaml">>, TRUE), Alt(FALSE, <<".yml">>, TRUE) }

\* ^vendor/, an -ignore pattern
IgnoreVendor == { Alt(TRUE, <<"vendor", "/">>, FALSE) }

Patterns == { IgnoreGit, IncludeYaml, IgnoreVendor }

\* the pattern lists a fileFilter is built from
PatLists ==
    {<<>>} \cup { <<a>> : a \in Patterns } \cup { <<a, b>> : a, b \in Patterns }

Filters == [includes : PatLists, excludes : PatLists]

\* the paths match is called on
FilterPaths ==
    { <<".git">>,
      <<".git", "/", "config", ".yaml">>,
      <<"config", ".yaml">>,
      <<"vendor", "/", "config", ".yaml">>,
      <<"config", ".json">>,
      <<"src", "/", ".git">> }

\* rx.MatchString(path): some alternative occurs in path where its anchors allow
MatchString(rx, path) ==
    \E a \in rx : \E i \in 0..(Len(path) - Len(a.lit)) :
        /\ Slice(path, i, i + Len(a.lit)) = a.lit
        /\ a.start => i = 0
        /\ a.end => i + Len(a.lit) = Len(path)

\* a faulty match: the include patterns are tried before the exclude patterns
matchIncludeFirst(f, path) ==
    IF \E i \in DOMAIN f.includes : MatchString(f.includes[i], path) THEN TRUE
    ELSE IF \E i \in DOMAIN f.excludes : MatchString(f.excludes[i], path) THEN FALSE
    ELSE Len(f.includes) = 0

\* (f *fileFilter) match(path)
match(f, path) ==
    IF \E i \in DOMAIN f.excludes : MatchString(f.excludes[i], path) THEN FALSE
    ELSE IF Len(f.includes) = 0 THEN TRUE
    ELSE \E i \in DOMAIN f.includes : MatchString(f.includes[i], path)

(***************************************************************************)
(* The command line (lines 18-33) and parseConfig (lines 67-145).  An      *)
(* argument is a flag name with its value; the value of -set is the        *)
(* KEY=value pair StringMap.Set stores.                                    *)
(***************************************************************************)
\* the flags the program defines: flag.String, flag.Int and flag.Var
Registered ==
    { "open", "close", "dir", "workers", "both", "log", "include", "ignore", "set" }

Flag(n, v) == [name |-> n, value |-> v]

\* the mode values tried, the last one not a mode
ModeValues == { "env", "flag", "both", "all" }

\* the arguments tried: the value source under the documented name and
\* under the name the variable mode is defined with, and one -set
ArgChoices ==
    { Flag(n, v) : n \in {"mode", "both"}, v \in ModeValues }
        \cup { Flag("set", <<"K", "f">>) }

\* the command lines tried: no argument, one, or one together with -set
ArgLists ==
    {<<>>} \cup { <<a>> : a \in ArgChoices }
        \cup { <<a, Flag("set", <<"K", "f">>)>> : a \in ArgChoices }
        \cup { <<Flag("set", <<"K", "f">>), a>> : a \in ArgChoices }

\* os.Environ() as a map
Environs == { <<>>, [k \in {"K", "H"} |-> "e"] }

\* the value the last flag named n was given, or the default d
FlagValue(as, n, d) ==
    LET hits == { i \in DOMAIN as : as[i].name = n }
    IN  IF hits = {} THEN d
        ELSE as[CHOOSE i \in hits : \A j \in hits : j <= i].value

\* userKV after flag.Parse: every -set, a later one overriding an earlier
UserKV(as) ==
    LET sets == { i \in DOMAIN as : as[i].name = "set" }
        keys == { as[i].value[1] : i \in sets }
    IN  [k \in keys |->
            as[CHOOSE i \in sets : /\ as[i].value[1] = k
                                    /\ \A j \in sets : as[j].value[1] = k => j <= i
              ].value[2]]

\* m overridden by o
Merge(m, o) ==
    [k \in DOMAIN m \cup DOMAIN o |-> IF k \in DOMAIN o THEN o[k] ELSE m[k]]

ConfigError(e) == [err |-> e, mode |-> "", keymap |-> <<>>]

\* flag.Parse() stops the program at a flag that is not defined; otherwise
\* parseConfig switches on *mode, the value of the flag "both"
parseConfig(as, env) ==
    IF \E i \in DOMAIN as : as[i].name \notin Registered
    THEN ConfigError("flag provided but not defined")
    ELSE LET md == FlagValue(as, "both", "env")
         IN  IF md = "env" THEN [err |-> "nil", mode |-> md, keymap |-> env]
             ELSE IF md = "flag"
             THEN [err |-> "nil", mode |-> md, keymap |-> UserKV(as)]
             ELSE IF md = "both"
             THEN [err |-> "nil", mode |-> md, keymap |-> Merge(env, UserKV(as))]
             ELSE ConfigError("invalid mode")

(***************************************************************************)
(* State.                                                                  *)
(***************************************************************************)
VARIABLES
    mapping,    \* cfg.KeyMap
    workers,    \* cfg.Workers
    tree,       \* cfg.TargetDir: the entries in filepath.WalkDir's visiting order
    disk,       \* the bytes of each entry's file, by path (the entry's index)
    mode,       \* the permission bits of each entry's file, by path
    pairs,      \* the oldnew list inside the replacer built by processFiles
    files,      \* the channel's buffer
    closed,     \* how many times close(files) ran
    errs,       \* the shared error slice
    errLock,    \* the mutex's holder: 0 free, w a worker, Walker the walker
    wg,         \* the WaitGroup's counter
    mainpc,     \* processFiles: "start", "wait", "returned"
    result,     \* what processFiles returned: the joined errors (<<>> is nil)
    walkpc,     \* the walker goroutine: "idle", "walk", "lock", "append", "close", "done"
    walkpos,    \* the number of entries WalkDir has visited
    wpc,        \* each worker: "idle", "recv", "process", "lock", "append", "done"
    wpath,      \* each worker's loop variable path (0: none)
    werr,       \* each worker's err returned by processFile
    run,        \* which invocation of the program this is
    disk0,      \* history: the disk when this invocation started
    sent,       \* history: how often the walker sent each path
    recvd,      \* history: how often a worker received each path
    procd,      \* history: how often processFile returned for each path
    wrote,      \* history: how often os.WriteFile was called for each path
    rres,       \* history: what the replacer returned for each path's content
    prev,       \* history: what the previous invocations left
    args,       \* the command line
    environ,    \* os.Environ()
    parsed,     \* what parseConfig returned
    filter,     \* a fileFilter
    matched     \* history: the last call of filter.match and its result

vars == <<mapping, workers, tree, disk, mode, pairs, files, closed, errs, errLock, wg,
          mainpc, result, walkpc, walkpos, wpc, wpath, werr,
          run, disk0, sent, recvd, procd, wrote, rres, prev,
          args, environ, parsed, filter, matched>>

mainVars == <<args, environ, parsed, filter, matched>>
cfgVars == <<mapping, workers, tree, mainVars>>
walkVars == <<walkpc, walkpos>>
workVars == <<wpc, wpath, werr>>
runVars == <<run, disk0, prev>>
histVars == <<sent, recvd, procd, wrote, rres>>

Walker == MaxSize + 1
Workers == 1..workers
Paths == 1..Len(tree)

NoResult == [ok |-> TRUE, out |-> <<>>, changed |-> FALSE, missing |-> <<>>]
NilErr == [kind |-> "nil", key |-> <<>>]

\* a directory entry: its type, whether cfg.FileFilter.match accepts its path,
\* and whether its permission bits let this process read and write it
Entry(t, m, r, w) == [type |-> t, match |-> m, readable |-> r, writable |-> w]
RegularFile == Entry("file", TRUE, TRUE, TRUE)

\* fi.Mode().Perm() of entry e as a set of bits: the owner's bits as the
\* entry says, and read for group and others (0644, 0444, 0244)
Mode(e) ==
    (IF e.readable THEN {"ur"} ELSE {}) \cup (IF e.writable THEN {"uw"} ELSE {})
        \cup {"gr", "or"}

\* make(chan string, cfg.Workers*2)
QueueCap == workers * 2

(***************************************************************************)
(* Initial states.                                                         *)
(***************************************************************************)
\* the state every invocation starts from, given the configuration and disk
Fresh ==
    /\ pairs = <<>>
    /\ files = <<>>
    /\ closed = 0
    /\ errs = <<>>
    /\ errLock = 0
    /\ wg = 0
    /\ mainpc = "start"
    /\ result = <<>>
    /\ walkpc = "idle"
    /\ walkpos = 0
    /\ wpc = [w \in Workers |-> "idle"]
    /\ wpath = [w \in Workers |-> 0]
    /\ werr = [w \in Workers |-> NilErr]
    /\ sent = [p \in Paths |-> 0]
    /\ recvd = [p \in Paths |-> 0]
    /\ procd = [p \in Paths |-> 0]
    /\ wrote = [p \in Paths |-> 0]
    /\ rres = [p \in Paths |-> NoResult]

\* the entries and contents a tree of the scheduler specification is made of
Plain == <<"a">>
Resolvable == <<"<", "a", ">">>
Mixed == <<"<", "a", ">", "<", "a", "a", ">">>

EntryKinds ==
    { <<Entry("dir", TRUE, TRUE, TRUE), <<>>>>,
      <<Entry("dir", FALSE, TRUE, TRUE), <<>>>>,
      <<Entry("symlink", TRUE, TRUE, TRUE), Resolvable>>,
      <<Entry("file", FALSE, TRUE, TRUE), Resolvable>>,
      <<Entry("baddir", TRUE, FALSE, TRUE), <<>>>>,
      <<RegularFile, Plain>>,
      <<RegularFile, Resolvable>>,
      <<RegularFile, Mixed>>,
      <<Entry("file", TRUE, FALSE, TRUE), Resolvable>>,
      <<Entry("file", TRUE, TRUE, FALSE), Resolvable>> }

SchedMapping == [k \in { <<"a">> } |-> <<"a">>]

NotParsed == [err |-> "none", mode |-> "", keymap |-> <<>>]
NoCall == [path |-> <<>>, res |-> FALSE, called |-> FALSE]

\* the default rule set: -include .*\.ya?ml$ and -ignore ^\.git(/|$)
DefaultFilter == [includes |-> <<IncludeYaml>>, excludes |-> <<IgnoreGit>>]

\* parseConfig is over: the specifications of processFiles start from its
\* result, cfg
ConfigDone ==
    /\ args = <<>>
    /\ environ = <<>>
    /\ parsed = NotParsed
    /\ filter = DefaultFilter
    /\ matched = NoCall

\* the scheduler specification: any worker count and any tree that add up
\* to MaxSize at most, one mapping
Init ==
    /\ ConfigDone
    /\ mapping = SchedMapping
    /\ workers \in 1..(MaxSize - 1)
    /\ \E n \in 0..(MaxSize - workers) : \E t \in [1..n -> EntryKinds] :
          /\ tree = [i \in 1..n |-> t[i][1]]
          /\ disk = [i \in 1..n |-> t[i][2]]
    /\ mode = [p \in Paths |-> Mode(tree[p])]
    /\ disk0 = disk
    /\ run = 1
    /\ prev = <<>>
    /\ Fresh

\* the replacer specifications: one regular file of any content up to MaxLen,
\* any mapping, one worker
InitReplace ==
    /\ ConfigDone
    /\ mapping \in Mappings
    /\ workers = 1
    /\ tree \in { <<RegularFile>>, <<RegularFile, Entry("baddir", TRUE, FALSE, TRUE)>> }
    /\ \E c \in Strings(MaxLen) : disk = [i \in 1..Len(tree) |-> IF i = 1 THEN c ELSE <<>>]
    /\ mode = [p \in Paths |-> Mode(tree[p])]
    /\ disk0 = disk
    /\ run = 1
    /\ prev = <<>>
    /\ Fresh

\* what a file's content can end with: nothing, or an open delimiter that no
\* close delimiter follows
Tails == { <<>>, <<"<">>, <<"<", "a">> }

\* the unclosed-delimiter specification: one regular file whose content is
\* any string up to MaxLen followed by one of Tails, any mapping, one worker
InitUnclosed ==
    /\ ConfigDone
    /\ mapping \in Mappings
    /\ workers = 1
    /\ tree \in { <<RegularFile>>, <<RegularFile, Entry("baddir", TRUE, FALSE, TRUE)>> }
    /\ \E c \in Strings(MaxLen) : \E t \in Tails :
          disk = [i \in 1..Len(tree) |-> IF i = 1 THEN c \o t ELSE <<>>]
    /\ mode = [p \in Paths |-> Mode(tree[p])]
    /\ disk0 = disk
    /\ run = 1
    /\ prev = <<>>
    /\ Fresh

(***************************************************************************)
(* processFiles: set-up and join.                                          *)
(***************************************************************************)
\* lines 175-218: make the channel, build the replacer (the map is ranged
\* over in some order), start cfg.Workers workers and the walker
Spawn ==
    /\ mainpc = "start"
    /\ pairs' \in PairLists(mapping)
    /\ files' = <<>>
    /\ errs' = <<>>
    /\ wg' = workers
    /\ wpc' = [w \in Workers |-> "recv"]
    /\ walkpc' = "walk"
    /\ mainpc' = "wait"
    /\ UNCHANGED <<cfgVars, disk, mode, closed, errLock, result, walkpos, wpath, werr,
                   runVars, histVars>>

\* a faulty join: processFiles does not wait for the workers
WaitSkipped == TRUE

\* wg.Wait() has returned
WaitDone == wg = 0

\* lines 220-225: wg.Wait(), then errors.Join(errs...) or nil
Return ==
    /\ mainpc = "wait"
    /\ WaitDone
    /\ result' = errs
    /\ mainpc' = "returned"
    /\ UNCHANGED <<cfgVars, disk, mode, pairs, files, closed, errs, errLock, wg, walkVars,
                   workVars, runVars, histVars>>

(***************************************************************************)
(* A worker goroutine (lines 185-196) and processFile (lines 228-249).     *)
(***************************************************************************)
\* a faulty channel: a receive leaves the received path in the buffer
DequeueNothing(q) == q

\* what a receive leaves in the channel's buffer
Dequeue(q) == Tail(q)

\* `for path := range files`: receive the next path
Recv(w) ==
    /\ wpc[w] = "recv"
    /\ files # <<>>
    /\ wpath' = [wpath EXCEPT ![w] = Head(files)]
    /\ files' = Dequeue(files)
    /\ recvd' = [recvd EXCEPT ![Head(files)] = @ + 1]
    /\ wpc' = [wpc EXCEPT ![w] = "process"]
    /\ UNCHANGED <<cfgVars, disk, mode, pairs, closed, errs, errLock, wg, mainpc, result,
                   walkVars, werr, runVars, sent, procd, wrote, rres>>

\* `for path := range files` ends on a closed, drained channel; defer wg.Done()
Exit(w) ==
    /\ wpc[w] = "recv"
    /\ files = <<>>
    /\ closed > 0
    /\ wpc' = [wpc EXCEPT ![w] = "done"]
    /\ wg' = wg - 1
    /\ UNCHANGED <<cfgVars, disk, mode, pairs, files, closed, errs, errLock, mainpc, result,
                   walkVars, wpath, werr, runVars, histVars>>

\* the loop body is over: path and err go out of scope
NextIteration(w) ==
    /\ wpc' = [wpc EXCEPT ![w] = "recv"]
    /\ wpath' = [wpath EXCEPT ![w] = 0]
    /\ werr' = [werr EXCEPT ![w] = NilErr]

\* a faulty processFile: writes whatever the replacer returned
WriteAlways(r) == TRUE

\* `if changed`: whether processFile goes on to os.WriteFile
NeedsWrite(r) == r.changed

\* a faulty processFile: the error of os.WriteFile is dropped
WriteResultIgnored(e, old, out) ==
    [err |-> NilErr, bytes |-> IF e.writable THEN out ELSE old]

\* a faulty processFile: the new content goes to a temporary file (created
\* with mode 0600) that is renamed over the original
WriteModeTemp(cur, perm) == {"ur", "uw"}

\* os.WriteFile(path, out, perm) on an existing file with bits cur: the
\* file is opened with O_WRONLY|O_CREATE|O_TRUNC, and perm is used only when
\* the file is created; the bits the file has afterwards
WriteMode(cur, perm) == cur

\* os.WriteFile(path, out, fi.Mode()) on the existing file e holding old:
\* the error and the bytes the file holds afterwards
WriteResult(e, old, out) ==
    IF e.writable THEN [err |-> NilErr, bytes |-> out]
    ELSE [err |-> [kind |-> "write", key |-> <<>>], bytes |-> old]

\* a faulty processFile: the replaced text is written before the replacer's
\* error is looked at, so a failing file keeps its partial substitutions
processFileEager(e, in, prs) ==
    IF ~e.readable
    THEN [err |-> [kind |-> "read", key |-> <<>>], res |-> NoResult,
          write |-> FALSE, bytes |-> in]
    ELSE LET r == replacer(in, prs)
             wr == WriteResult(e, in, Replace(in, prs))
         IN  IF ~r.ok
             THEN [err |-> [kind |-> "unresolved", key |-> r.missing], res |-> r,
                   write |-> TRUE, bytes |-> wr.bytes]
             ELSE [err |-> wr.err, res |-> r, write |-> TRUE, bytes |-> wr.bytes]

\* processFile on entry e holding bytes in, with replacer list prs: the
\* error returned, the replacer's result (if it ran), whether os.WriteFile
\* was called, and the bytes the file holds afterwards
processFile(e, in, prs) ==
    IF ~e.readable
    THEN [err |-> [kind |-> "read", key |-> <<>>], res |-> NoResult,
          write |-> FALSE, bytes |-> in]
    ELSE LET r == replacer(in, prs)
         IN  IF ~r.ok
             THEN [err |-> [kind |-> "unresolved", key |-> r.missing], res |-> r,
                   write |-> FALSE, bytes |-> in]
             ELSE IF NeedsWrite(r)
             THEN LET wr == WriteResult(e, in, r.out)
                  IN  [err |-> wr.err, res |-> r, write |-> TRUE, bytes |-> wr.bytes]
             ELSE [err |-> NilErr, res |-> r, write |-> FALSE, bytes |-> in]

\* err := processFile(path, replacer); if err != nil the worker goes on to
\* record it, otherwise to the next receive
ProcessFile(w) ==
    /\ wpc[w] = "process"
    /\ \E p \in {wpath[w]} : \E o \in {processFile(tree[p], disk[p], pairs)} :
           /\ disk' = [disk EXCEPT ![p] = o.bytes]
           /\ mode' = [mode EXCEPT ![p] = IF o.write /\ o.err = NilErr
                                           THEN WriteMode(@, @) ELSE @]
           /\ rres' = [rres EXCEPT ![p] = o.res]
           /\ wrote' = [wrote EXCEPT ![p] = IF o.write THEN @ + 1 ELSE @]
           /\ procd' = [procd EXCEPT ![p] = @ + 1]
           /\ IF o.err.kind # "nil"
              THEN /\ werr' = [werr EXCEPT ![w] = o.err]
                   /\ wpc' = [wpc EXCEPT ![w] = "lock"]
                   /\ UNCHANGED wpath
              ELSE NextIteration(w)
    /\ UNCHANGED <<cfgVars, pairs, files, closed, errs, errLock, wg, mainpc, result,
                   walkVars, runVars, sent, recvd>>

\* a faulty worker: it appends without waiting for the mutex
LockNoWait(w) ==
    /\ wpc[w] = "lock"
    /\ errLock' = w
    /\ wpc' = [wpc EXCEPT ![w] = "append"]
    /\ UNCHANGED <<cfgVars, disk, mode, pairs, files, closed, errs, wg, mainpc, result,
                   walkVars, wpath, werr, runVars, histVars>>

\* processFile when os.ReadFile succeeded and os.Stat then failed, so that
\* fi is nil (its error is discarded): the error returned, the replacer's
\* result, and whether fi.Mode() is reached and panics
processFileNoStat(in, prs) ==
    LET r == replacer(in, prs)
    IN  IF ~r.ok
        THEN [err |-> [kind |-> "unresolved", key |-> r.missing], res |-> r,
              panic |-> FALSE]
        ELSE [err |-> NilErr, res |-> r, panic |-> NeedsWrite(r)]

\* err := processFile(path, replacer) on a file that another process removes
\* between os.ReadFile and os.Stat; a panic in a goroutine ends the program
StatFailed(w) ==
    /\ wpc[w] = "process"
    /\ \E p \in {wpath[w]} : \E o \in {processFileNoStat(disk[p], pairs)} :
           /\ tree[p].readable
           /\ tree[p].type # "gone"
           /\ tree' = [tree EXCEPT ![p].type = "gone"]
           /\ rres' = [rres EXCEPT ![p] = o.res]
           /\ IF o.panic
              THEN /\ mainpc' = "panic"
                   /\ UNCHANGED <<workVars, procd>>
              ELSE /\ procd' = [procd EXCEPT ![p] = @ + 1]
                   /\ UNCHANGED mainpc
                   /\ IF o.err.kind # "nil"
                      THEN /\ werr' = [werr EXCEPT ![w] = o.err]
                           /\ wpc' = [wpc EXCEPT ![w] = "lock"]
                           /\ UNCHANGED wpath
                      ELSE NextIteration(w)
    /\ UNCHANGED <<mapping, workers, mainVars, disk, mode, pairs, files, closed, errs,
                   errLock, wg, result, walkVars, runVars, sent, recvd, wrote>>

\* errLock.Lock()
Lock(w) ==
    /\ wpc[w] = "lock"
    /\ errLock = 0
    /\ errLock' = w
    /\ wpc' = [wpc EXCEPT ![w] = "append"]
    /\ UNCHANGED <<cfgVars, disk, mode, pairs, files, closed, errs, wg, mainpc, result,
                   walkVars, wpath, werr, runVars, histVars>>

\* the error a worker records: "failed to process <path>: <err>"
FileError(p, e) == [path |-> p, kind |-> e.kind, key |-> e.key]

\* errs = append(errs, ...); errLock.Unlock()
AppendErr(w) ==
    /\ wpc[w] = "append"
    /\ errs' = Append(errs, FileError(wpath[w], werr[w]))
    /\ errLock' = 0
    /\ NextIteration(w)
    /\ UNCHANGED <<cfgVars, disk, mode, pairs, files, closed, wg, mainpc, result, walkVars,
                   runVars, histVars>>

(***************************************************************************)
(* The walker goroutine (lines 199-218).                                   *)
(***************************************************************************)
\* d.IsDir()
IsDir(e) == e.type = "dir"

\* a faulty callback: it returns fs.SkipDir for a directory the filter
\* rejects, and WalkDir skips everything below it
WalkNextSkipRejected(p, t) == IF IsDir(t[p]) /\ ~t[p].match THEN Len(t) ELSE p

\* how many entries of t WalkDir has visited when the callback has returned
\* nil for entry p: it goes on with the next one, for a directory its first
\* child (a directory of the model contains every entry that comes after it)
WalkNext(p, t) == p

\* a faulty channel: unbounded, a send never blocks
CanSendAlways(q) == TRUE

\* `files <- p` can proceed: the buffer has a free slot
CanSend(q) == Len(q) < QueueCap

\* one call of the WalkDir callback, on the next entry: a directory whose
\* listing fails makes the callback return err, which ends the walk; a
\* directory or a path the filter rejects returns nil; anything else is
\* sent on the channel, which blocks while the buffer is full
WalkFn ==
    /\ walkpc = "walk"
    /\ walkpos < Len(tree)
    /\ LET p == walkpos + 1
           e == tree[p]
       IN  IF e.type = "baddir"
           THEN /\ walkpc' = "lock"
                /\ UNCHANGED <<files, sent>>
           ELSE IF IsDir(e) \/ ~e.match
           THEN UNCHANGED <<walkpc, files, sent>>
           ELSE /\ CanSend(files)
                /\ files' = Append(files, p)
                /\ sent' = [sent EXCEPT ![p] = @ + 1]
                /\ UNCHANGED walkpc
    /\ walkpos' = WalkNext(walkpos + 1, tree)
    /\ UNCHANGED <<cfgVars, disk, mode, pairs, closed, errs, errLock, wg, mainpc, result,
                   workVars, runVars, recvd, procd, wrote, rres>>

\* filepath.WalkDir returns nil after the last entry
WalkReturn ==
    /\ walkpc = "walk"
    /\ walkpos = Len(tree)
    /\ walkpc' = "close"
    /\ UNCHANGED <<cfgVars, disk, mode, pairs, files, closed, errs, errLock, wg, mainpc,
                   result, walkpos, workVars, runVars, histVars>>

\* if err != nil { errLock.Lock()
WalkLock ==
    /\ walkpc = "lock"
    /\ errLock = 0
    /\ errLock' = Walker
    /\ walkpc' = "append"
    /\ UNCHANGED <<cfgVars, disk, mode, pairs, files, closed, errs, wg, mainpc, result,
                   walkpos, workVars, runVars, histVars>>

\* "failed to walk directory <dir>: <err>"
WalkError == [path |-> 0, kind |-> "walk", key |-> <<>>]

\* a faulty walker: the error WalkDir returned is not recorded
WalkAppendDropped ==
    /\ walkpc = "append"
    /\ errLock' = 0
    /\ walkpc' = "close"
    /\ UNCHANGED <<cfgVars, disk, mode, pairs, files, closed, errs, wg, mainpc, result,
                   walkpos, workVars, runVars, histVars>>

\* errs = append(errs, ...); errLock.Unlock() }
WalkAppend ==
    /\ walkpc = "append"
    /\ errs' = Append(errs, WalkError)
    /\ errLock' = 0
    /\ walkpc' = "close"
    /\ UNCHANGED <<cfgVars, disk, mode, pairs, files, closed, wg, mainpc, result, walkpos,
                   workVars, runVars, histVars>>

\* a faulty walker: it ends without closing the channel
CloseForgotten ==
    /\ walkpc = "close"
    /\ walkpc' = "done"
    /\ UNCHANGED <<cfgVars, disk, mode, pairs, files, closed, errs, errLock, wg, mainpc,
                   result, walkpos, workVars, runVars, histVars>>

\* close(files)
Close ==
    /\ walkpc = "close"
    /\ closed' = closed + 1
    /\ walkpc' = "done"
    /\ UNCHANGED <<cfgVars, disk, mode, pairs, files, errs, errLock, wg, mainpc, result,
                   walkpos, workVars, runVars, histVars>>

(***************************************************************************)
(* A second invocation of the program over the same directory with the     *)
(* same configuration (main, lines 147-172, run again).                    *)
(***************************************************************************)
RunAgain ==
    /\ mainpc = "returned"
    /\ run = 1
    /\ run' = run + 1
    /\ prev' = Append(prev, [disk0 |-> disk0, disk |-> disk, wrote |-> wrote,
                             rres |-> rres, result |-> result])
    /\ disk0' = disk
    /\ pairs' = <<>>
    /\ files' = <<>>
    /\ closed' = 0
    /\ errs' = <<>>
    /\ errLock' = 0
    /\ wg' = 0
    /\ mainpc' = "start"
    /\ result' = <<>>
    /\ walkpc' = "idle"
    /\ walkpos' = 0
    /\ wpc' = [w \in Workers |-> "idle"]
    /\ wpath' = [w \in Workers |-> 0]
    /\ werr' = [w \in Workers |-> NilErr]
    /\ sent' = [p \in Paths |-> 0]
    /\ recvd' = [p \in Paths |-> 0]
    /\ procd' = [p \in Paths |-> 0]
    /\ wrote' = [p \in Paths |-> 0]
    /\ rres' = [p \in Paths |-> NoResult]
    /\ UNCHANGED <<cfgVars, disk, mode>>

(***************************************************************************)
(* A second invocation over the same files as the first found them, with   *)
(* the same configuration but one more worker (-workers).                  *)
(***************************************************************************)
RunOther ==
    /\ mainpc = "returned"
    /\ run = 1
    /\ run' = run + 1
    /\ prev' = Append(prev, [disk0 |-> disk0, disk |-> disk, wrote |-> wrote,
                             rres |-> rres, result |-> result])
    /\ workers' = workers + 1
    /\ disk' = disk0
    /\ pairs' = <<>>
    /\ files' = <<>>
    /\ closed' = 0
    /\ errs' = <<>>
    /\ errLock' = 0
    /\ wg' = 0
    /\ mainpc' = "start"
    /\ result' = <<>>
    /\ walkpc' = "idle"
    /\ walkpos' = 0
    /\ wpc' = [w \in 1..(workers + 1) |-> "idle"]
    /\ wpath' = [w \in 1..(workers + 1) |-> 0]
    /\ werr' = [w \in 1..(workers + 1) |-> NilErr]
    /\ sent' = [p \in Paths |-> 0]
    /\ recvd' = [p \in Paths |-> 0]
    /\ procd' = [p \in Paths |-> 0]
    /\ wrote' = [p \in Paths |-> 0]
    /\ rres' = [p \in Paths |-> NoResult]
    /\ UNCHANGED <<mapping, tree, disk0, mode, mainVars>>

(***************************************************************************)
(* The start of main: parseConfig, and calls of fileFilter.match.          *)
(***************************************************************************)
\* any command line, environment and rule set; nothing is processed
InitConfig ==
    /\ args \in ArgLists
    /\ environ \in Environs
    /\ filter \in Filters
    /\ parsed = NotParsed
    /\ matched = NoCall
    /\ mapping = <<>>
    /\ workers = 1
    /\ tree = <<>>
    /\ disk = <<>>
    /\ mode = <<>>
    /\ disk0 = disk
    /\ run = 1
    /\ prev = <<>>
    /\ Fresh

\* cfg, err := parseConfig()
ParseConfig ==
    /\ parsed = NotParsed
    /\ parsed' = parseConfig(args, environ)
    /\ UNCHANGED <<mapping, workers, tree, args, environ, filter, matched, disk, mode,
                   pairs, files, closed, errs, errLock, wg, mainpc, result,
                   walkVars, workVars, runVars, histVars>>

\* f.match(path) for some path
MatchPath ==
    /\ \E path \in FilterPaths :
          matched' = [path |-> path, res |-> match(filter, path), called |-> TRUE]
    /\ UNCHANGED <<mapping, workers, tree, args, environ, parsed, filter, disk, mode,
                   pairs, files, closed, errs, errLock, wg, mainpc, result,
                   walkVars, workVars, runVars, histVars>>

NextConfig ==
    \/ ParseConfig
    \/ MatchPath

SpecConfig == InitConfig /\ [][NextConfig]_vars

(***************************************************************************)
(* Specifications.                                                         *)
(***************************************************************************)
WorkerStep(w) ==
    \/ Recv(w)
    \/ Exit(w)
    \/ ProcessFile(w)
    \/ Lock(w)
    \/ AppendErr(w)

WalkerStep ==
    \/ WalkFn
    \/ WalkReturn
    \/ WalkLock
    \/ WalkAppend
    \/ Close

Next ==
    \/ Spawn
    \/ Return
    \/ WalkFn
    \/ WalkReturn
    \/ WalkLock
    \/ WalkAppend
    \/ Close
    \/ \E w \in Workers : Recv(w)
    \/ \E w \in Workers : Exit(w)
    \/ \E w \in Workers : ProcessFile(w)
    \/ \E w \in Workers : Lock(w)
    \/ \E w \in Workers : AppendErr(w)

NextTwice == Next \/ RunAgain

\* one run of processFiles over any small tree
Spec == Init /\ [][Next]_vars

\* a worker's steps other than the call of processFile
WorkerSync(w) ==
    \/ Recv(w)
    \/ Exit(w)
    \/ Lock(w)
    \/ AppendErr(w)

\* ProcessFile(w) is enabled exactly in these states, and it leaves them
InProcessFile(w) == w \in Workers /\ wpc[w] = "process"

\* the Go scheduler runs every goroutine that can take a step: weak
\* fairness of processFiles, of the walker and of every worker (for
\* ProcessFile(w), weak fairness written out with its enabling condition)
Fairness ==
    /\ WF_vars(Spawn \/ Return)
    /\ WF_vars(WalkerStep)
    /\ \A w \in 1..MaxSize : WF_vars(w \in Workers /\ WorkerSync(w))
    /\ \A w \in 1..MaxSize : []<>(~InProcessFile(w))

FairSpec == Spec /\ Fairness

\* one run over one file of any content, with any mapping
SpecReplace == InitReplace /\ [][Next]_vars

\* two runs in succession over one file of any content, with any mapping
SpecTwice == InitReplace /\ [][NextTwice]_vars

\* one run over one file whose content may end in an unclosed open delimiter
SpecUnclosed == InitUnclosed /\ [][Next]_vars

\* the program is running: no goroutine has panicked
Alive == mainpc # "panic"

NextRace ==
    \/ Alive /\ Spawn
    \/ Alive /\ Return
    \/ Alive /\ WalkFn
    \/ Alive /\ WalkReturn
    \/ Alive /\ WalkLock
    \/ Alive /\ WalkAppend
    \/ Alive /\ Close
    \/ \E w \in Workers : Alive /\ Recv(w)
    \/ \E w \in Workers : Alive /\ Exit(w)
    \/ \E w \in Workers : Alive /\ ProcessFile(w)
    \/ \E w \in Workers : Alive /\ StatFailed(w)
    \/ \E w \in Workers : Alive /\ Lock(w)
    \/ \E w \in Workers : Alive /\ AppendErr(w)

\* one run of processFiles while other processes remove files of the tree
SpecRace == Init /\ [][NextRace]_vars

NextCompare == Next \/ RunOther

\* two runs over the same file of any content, with any mapping: the first
\* with one worker, the second with two
SpecCompare == InitReplace /\ [][NextCompare]_vars

(***************************************************************************)
(* Vocabulary of the properties.                                           *)
(***************************************************************************)
\* the replacer ran on path p's content in this run
Replaced(p) == procd[p] >= 1 /\ tree[p].readable

\* the texts enclosed by an open delimiter of txt and the first close
\* delimiter after it that are not keys of m
Unresolved(txt, m) ==
    { Slice(txt, i + Len(OpenDelim),
            i + Len(OpenDelim) + Index(SliceFrom(txt, i + Len(OpenDelim)), CloseDelim)) :
        i \in { j \in 0..(Len(txt) - 1) :
                  /\ HasPrefix(SliceFrom(txt, j), OpenDelim)
                  /\ Index(SliceFrom(txt, j + Len(OpenDelim)), CloseDelim) # -1
                  /\ Slice(txt, j + Len(OpenDelim),
                           j + Len(OpenDelim)
                             + Index(SliceFrom(txt, j + Len(OpenDelim)), CloseDelim))
                        \notin DOMAIN m } }

\* the 0-based indexes of the open delimiters of txt that no close delimiter
\* follows
UnclosedOpens(txt) ==
    { i \in 0..(Len(txt) - 1) :
        /\ HasPrefix(SliceFrom(txt, i), OpenDelim)
        /\ Index(SliceFrom(txt, i + Len(OpenDelim)), CloseDelim) = -1 }

\* txt has an open delimiter with a close delimiter somewhere after it
OpenThenClose(txt) ==
    \E i \in 0..(Len(txt) - 1) :
        /\ HasPrefix(SliceFrom(txt, i), OpenDelim)
        /\ Index(SliceFrom(txt, i + Len(OpenDelim)), CloseDelim) # -1

\* the paths a complete walk of the tree sends: every entry that is not a
\* directory, that the filter accepts, and that comes before any directory
\* whose listing fails
WalkFails == \E q \in Paths : tree[q].type = "baddir"
Emitted ==
    { p \in Paths : /\ tree[p].type \notin {"dir", "baddir"}
                    /\ tree[p].match
                    /\ \A q \in 1..p : tree[q].type # "baddir" }

\* how processing path p's file must end, from the tree and the bytes the
\* file held when the run started alone
Outcome(p) ==
    IF ~tree[p].readable THEN "read"
    ELSE LET ref == loopReplacer(disk0[p], mapping)
         IN  IF ~ref.ok THEN "unresolved"
             ELSE IF ref.changed /\ ~tree[p].writable THEN "write"
             ELSE "nil"

\* how many errors of r are about path p
ErrCount(r, p) == Cardinality({ i \in DOMAIN r : r[i].path = p })

Done == mainpc = "returned"

(***************************************************************************)
(* C1 (checked under SpecReplace).  Whenever every left-to-right,          *)
(* non-overlapping occurrence of open key close in a file's content has    *)
(* its key in the mapping, the replacer succeeds and returns the content   *)
(* with each occurrence replaced by its value and every other byte kept,   *)
(* whatever the values contain.                                            *)
(***************************************************************************)
C1_ReplacesEveryOccurrence ==
    \A p \in Paths :
        Replaced(p) =>
            LET ref == loopReplacer(disk0[p], mapping)
            IN  ref.ok => rres[p].ok /\ rres[p].out = ref.out

(***************************************************************************)
(* C2 (checked under SpecReplace).  Whenever the content has an open       *)
(* delimiter followed later by a close delimiter and the text between      *)
(* that open and the first close after it is not a key, the replacer       *)
(* returns an error carrying such an enclosed text, never a success.       *)
(***************************************************************************)
C2_UnresolvedIsAnError ==
    \A p \in Paths :
        Replaced(p) /\ Unresolved(disk0[p], mapping) # {} =>
            /\ ~rres[p].ok
            /\ rres[p].missing \in Unresolved(disk0[p], mapping)

(***************************************************************************)
(* C3 (checked under Spec).  A file whose processing ended in an           *)
(* unresolved-placeholder error or a read error was never written: it      *)
(* holds the bytes it held before the run, and once processFiles has       *)
(* returned the result has an error for its path that names the key the    *)
(* replacer found missing.                                                 *)
(***************************************************************************)
C3_FailedFileUntouched ==
    \A p \in Paths :
        procd[p] >= 1 /\ (~tree[p].readable \/ ~rres[p].ok) =>
            /\ wrote[p] = 0
            /\ disk[p] = disk0[p]
            /\ Done =>
                 \E i \in DOMAIN result :
                     result[i] = [path |-> p,
                                  kind |-> IF tree[p].readable THEN "unresolved"
                                           ELSE "read",
                                  key |-> rres[p].missing]

\* a run has returned in which a file with a resolvable and an unresolved
\* placeholder failed, and an unreadable file failed too
C3_Witness ==
    /\ Done
    /\ \E p, q \in Paths :
          /\ disk0[p] = Mixed /\ procd[p] = 1 /\ ~rres[p].ok
          /\ ~tree[q].readable /\ procd[q] = 1

(***************************************************************************)
(* C4 (checked under Spec).  Every path is sent at most once, received     *)
(* at most as often as it was sent and processed at most as often as it    *)
(* was received; a sent path is either still in the channel or was         *)
(* received; no two workers hold the same path; and once processFiles has  *)
(* returned every sent path was received once and processed once.          *)
(***************************************************************************)
C4_ExclusiveHandOff ==
    /\ \A p \in Paths :
          /\ sent[p] <= 1
          /\ procd[p] <= recvd[p]
          /\ recvd[p] + Cardinality({ i \in DOMAIN files : files[i] = p }) = sent[p]
          /\ Cardinality({ w \in Workers : wpath[w] = p }) <= 1
          /\ Done => recvd[p] = sent[p] /\ procd[p] = sent[p]

\* two workers are processing two different paths at the same time
C4_Witness ==
    \E v, w \in Workers :
        /\ v # w
        /\ wpc[v] = "process" /\ wpc[w] = "process"
        /\ wpath[v] # wpath[w]

(***************************************************************************)
(* C5 (checked under Spec).  When processFiles has returned, the walker    *)
(* has finished and closed the channel, the channel is empty, every        *)
(* worker has exited, and every path a complete walk emits was processed,  *)
(* however many of the files failed.                                       *)
(***************************************************************************)
C5_ReturnsAfterEverything ==
    Done =>
        /\ walkpc = "done"
        /\ closed = 1
        /\ files = <<>>
        /\ errLock = 0
        /\ \A w \in Workers : wpc[w] = "done"
        /\ \A p \in Paths : sent[p] = (IF p \in Emitted THEN 1 ELSE 0)
        /\ \A p \in Emitted : procd[p] = 1

\* a run has returned in which a file failed and a file walked after it
\* was still processed, successfully
C5_Witness ==
    /\ Done
    /\ \E p, q \in Paths :
          /\ p < q
          /\ ErrCount(result, p) = 1
          /\ procd[q] = 1 /\ ErrCount(result, q) = 0

(***************************************************************************)
(* C6 (checked under Spec).  The result processFiles returns has exactly   *)
(* one error, of the right kind, for each emitted path whose processing    *)
(* must fail, none for any other path, and one walk error if and only if   *)
(* the traversal failed; so it is nil exactly when nothing failed.         *)
(***************************************************************************)
C6_ResultIsExact ==
    Done =>
        /\ \A p \in Paths :
              IF p \in Emitted /\ Outcome(p) # "nil"
              THEN /\ ErrCount(result, p) = 1
                   /\ \E i \in DOMAIN result :
                         result[i].path = p /\ result[i].kind = Outcome(p)
              ELSE ErrCount(result, p) = 0
        /\ ErrCount(result, 0) = (IF WalkFails THEN 1 ELSE 0)
        /\ \A i \in DOMAIN result :
              result[i].path = 0 <=> result[i] = WalkError
        /\ result = errs
        /\ (result = <<>>) <=>
              (~WalkFails /\ \A p \in Emitted : Outcome(p) = "nil")

\* a run has returned a walk error together with the errors of two files
C6_Witness ==
    /\ Done
    /\ ErrCount(result, 0) = 1
    /\ Len(result) = 3

(***************************************************************************)
(* C7 (checked under FairSpec).  Under fair scheduling every run           *)
(* terminates: the channel is closed at most once, and eventually the      *)
(* walker has closed it, every worker has exited and processFiles has      *)
(* returned.                                                               *)
(***************************************************************************)
C7_Terminates ==
    /\ [](closed <= 1)
    /\ <>(/\ Done
          /\ closed = 1
          /\ walkpc = "done"
          /\ \A w \in Workers : wpc[w] = "done")

\* the walker is blocked: the next entry is to be sent and the channel's
\* buffer is full
C7_Witness ==
    /\ walkpc = "walk"
    /\ walkpos + 1 \in Emitted
    /\ Len(files) = QueueCap

(***************************************************************************)
(* C8 (checked under Spec).  os.WriteFile is called for a file exactly     *)
(* when the replacer returned success with changed = true for it, and      *)
(* then once; a file's bytes differ from those it held before the run      *)
(* only if it was written.                                                 *)
(***************************************************************************)
C8_WriteIffChanged ==
    \A p \in Paths :
        /\ wrote[p] = (IF Replaced(p) /\ rres[p].ok /\ rres[p].changed THEN 1 ELSE 0)
        /\ disk[p] # disk0[p] => wrote[p] = 1

\* one file was processed with changed = false and not written, another
\* was written
C8_Witness ==
    \E p, q \in Paths :
        /\ Replaced(p) /\ rres[p].ok /\ ~rres[p].changed /\ wrote[p] = 0
        /\ wrote[q] = 1 /\ disk[q] # disk0[q]

(***************************************************************************)
(* C9 (checked under SpecReplace).  Whenever the replacer succeeds, the    *)
(* changed flag it returns is true if and only if the scan made at least   *)
(* one substitution.                                                       *)
(***************************************************************************)
C9_ChangedIffSubstituted ==
    \A p \in Paths :
        Replaced(p) /\ rres[p].ok =>
            (rres[p].changed <=> ReplacerScan(disk0[p], pairs).n > 0)

\* the replacer succeeded after substituting a value that contains the
\* open delimiter
C9_Witness ==
    \E p \in Paths :
        /\ Replaced(p) /\ rres[p].ok /\ rres[p].changed
        /\ Index(rres[p].out, OpenDelim) # -1

(***************************************************************************)
(* C10 (checked under SpecTwice).  Idempotence: after a second run over    *)
(* the same directory with the same delimiters and mapping every file      *)
(* holds what it held after the first run, and a file the first run        *)
(* rewrote is found unchanged and is not written by the second.            *)
(***************************************************************************)
C10_SecondRunChangesNothing ==
    run = 2 /\ Done =>
        /\ disk = prev[1].disk
        /\ \A p \in Paths :
              prev[1].wrote[p] = 1 /\ prev[1].disk[p] # prev[1].disk0[p] =>
                  wrote[p] = 0 /\ rres[p].ok /\ ~rres[p].changed

(***************************************************************************)
(* C11 (checked under SpecCompare).  Concurrency-invariance: a run with    *)
(* one worker and a run with two workers over the same files, with the     *)
(* same delimiters and mapping, end with the same file contents and the    *)
(* same set of errors, whatever the interleaving.                          *)
(***************************************************************************)
C11_WorkerCountInvariant ==
    run = 2 /\ Done =>
        /\ disk = prev[1].disk
        /\ { result[i] : i \in DOMAIN result }
              = { prev[1].result[i] : i \in DOMAIN prev[1].result }

(***************************************************************************)
(* C12 (checked under SpecReplace).  The replacer is a deterministic       *)
(* function of the content: every replacer buildNewReplacer can build from *)
(* the mapping returns, for a file's content, the output, changed flag and *)
(* error that the run's replacer returned.                                 *)
(***************************************************************************)
C12_ReplaceIsDeterministic ==
    \A p \in Paths :
        Replaced(p) =>
            \A prs \in PairLists(mapping) : replacer(disk0[p], prs) = rres[p]

(***************************************************************************)
(* C13 (checked under SpecConfig).  match(path) returns true if and only   *)
(* if the path matches no exclude pattern and the include list is empty or *)
(* the path matches at least one include pattern, so an exclude match wins *)
(* over an include match; and no step changes the rule set.                *)
(***************************************************************************)
C13_MatchRule ==
    /\ [](matched.called =>
            (matched.res <=>
                /\ \A i \in DOMAIN filter.excludes :
                       ~MatchString(filter.excludes[i], matched.path)
                /\ \/ filter.includes = <<>>
                   \/ \E i \in DOMAIN filter.includes :
                         MatchString(filter.includes[i], matched.path)))
    /\ [][filter' = filter]_vars

\* with include .*\.ya?ml$ and exclude ^\.git(/|$), .git/config.yaml was
\* rejected
C13_Witness ==
    /\ matched.called
    /\ matched.path = <<".git", "/", "config", ".yaml">>
    /\ filter = DefaultFilter
    /\ ~matched.res

(***************************************************************************)
(* C18 (checked under SpecConfig).  A command line that gives the value    *)
(* source with the flag -mode is accepted when the value is env, flag or   *)
(* both, and parseConfig then takes the values from the environment only,  *)
(* from -set only, or from both with -set overriding; any other value is   *)
(* rejected with an error.                                                 *)
(***************************************************************************)
C18_ModeFlagSelectsSource ==
    (/\ parsed # NotParsed
     /\ \E i \in DOMAIN args : args[i].name = "mode"
     /\ \A i \in DOMAIN args : args[i].name # "both")
    => LET m == FlagValue(args, "mode", "env")
       IN  IF m = "env" THEN parsed.err = "nil" /\ parsed.keymap = environ
           ELSE IF m = "flag" THEN parsed.err = "nil" /\ parsed.keymap = UserKV(args)
           ELSE IF m = "both"
           THEN parsed.err = "nil" /\ parsed.keymap = Merge(environ, UserKV(args))
           ELSE parsed.err # "nil"

(***************************************************************************)
(* C14 (checked under Spec).  Every path the walker sends is a regular     *)
(* file that the filter accepts: no directory, symbolic link or other      *)
(* special entry and no path the filter rejects is ever sent.              *)
(***************************************************************************)
C14_OnlyAcceptedRegularFiles ==
    \A p \in Paths :
        sent[p] >= 1 => tree[p].type = "file" /\ tree[p].match

(***************************************************************************)
(* C16 (checked under Spec).  The channel never holds more than            *)
(* 2 * cfg.Workers paths; the walker sends only when a slot is free; and   *)
(* the paths sent but not yet processed are at most the capacity plus one  *)
(* per worker, whatever the size of the tree.                              *)
(***************************************************************************)
C16_QueueBounded ==
    /\ [](Len(files) <= workers * 2)
    /\ [](Cardinality({ p \in Paths : sent[p] > procd[p] }) <= workers * 2 + workers)
    /\ [][Len(files') > Len(files) => Len(files) < workers * 2]_vars

\* the buffer is full again after a worker took a path from it, and the
\* walk is over: the walker had to wait for the slot
C16_Witness ==
    /\ Len(files) = QueueCap
    /\ walkpos = Len(tree)
    /\ Cardinality({ p \in Paths : sent[p] = 1 }) > QueueCap

C15_WalkFailure ==
    /\ [](walkpc \in {"lock", "append"} \/ (WalkFails /\ walkpc \in {"close", "done"})
            => /\ tree[walkpos].type = "baddir"
               /\ \A q \in 1..(walkpos - 1) : tree[q].type # "baddir"
               /\ \A q \in Paths : q >= walkpos => sent[q] = 0)
    /\ [](ErrCount(errs, 0) <= 1)
    /\ (walkpc = "lock")
          ~> (/\ Done
              /\ ErrCount(result, 0) = 1
              /\ closed = 1
              /\ files = <<>>
              /\ \A p \in Paths : procd[p] = sent[p])

\* a run has returned whose walk failed after sending a file, which was
\* processed, and before reaching a file it would have sent
C15_Witness ==
    /\ Done
    /\ ErrCount(result, 0) = 1
    /\ \E p, q \in Paths :
          /\ p < walkpos /\ sent[p] = 1 /\ procd[p] = 1
          /\ q > walkpos /\ tree[q] = RegularFile /\ sent[q] = 0

(***************************************************************************)
(* C17 (checked under Spec).  A rewrite changes only the content of the    *)
(* file: every file keeps its path and the permission bits it had before   *)
(* the run, a rewritten file holds the replacer's output, and a file that  *)
(* was not rewritten holds the bytes it held before the run.               *)
(***************************************************************************)
C17_RewriteKeepsMode ==
    /\ DOMAIN disk = Paths /\ DOMAIN mode = Paths
    /\ \A p \in Paths :
          /\ mode[p] = Mode(tree[p])
          /\ wrote[p] = 1 /\ tree[p].writable => disk[p] = rres[p].out
          /\ wrote[p] = 0 \/ ~tree[p].writable => disk[p] = disk0[p]

\* a run has returned that rewrote one file and left another, which has
\* no placeholder, alone
C17_Witness ==
    /\ Done
    /\ \E p, q \in Paths :
          /\ wrote[p] = 1 /\ disk[p] # disk0[p] /\ mode[p] = Mode(tree[p])
          /\ disk0[q] = Plain /\ procd[q] = 1 /\ wrote[q] = 0 /\ disk[q] = Plain

(***************************************************************************)
(* C20 (checked under Spec).  At most one goroutine is between Lock and    *)
(* Unlock, and it is the mutex's holder; the error slice grows only by one *)
(* append of the holder, which then releases the mutex, and only while     *)
(* processFiles is waiting; and when processFiles reads the slice every    *)
(* worker has exited, the walker is past its append and the mutex is free. *)
(***************************************************************************)
C20_ErrorsUnderMutex ==
    /\ [](Cardinality({ w \in Workers : wpc[w] = "append" })
            + (IF walkpc = "append" THEN 1 ELSE 0) <= 1)
    /\ [](\A w \in Workers : wpc[w] = "append" => errLock = w)
    /\ [](walkpc = "append" => errLock = Walker)
    /\ [][errs' # errs =>
            /\ mainpc = "wait" /\ mainpc' = "wait"
            /\ errLock # 0 /\ errLock' = 0
            /\ Len(errs') = Len(errs) + 1
            /\ SubSeq(errs', 1, Len(errs)) = errs
            /\ IF errLock = Walker THEN walkpc = "append"
                ELSE wpc[errLock] = "append"]_vars
    /\ [](Done =>
            /\ \A w \in Workers : wpc[w] = "done"
            /\ walkpc = "done"
            /\ errLock = 0
            /\ result = errs)

\* a worker holds the mutex while another worker waits for it
C20_Witness ==
    \E v, w \in Workers :
        /\ wpc[v] = "append" /\ errLock = v
        /\ wpc[w] = "lock" /\ werr[w] # NilErr

(***************************************************************************)
(* C21 (checked under SpecUnclosed).  An open delimiter that no close      *)
(* delimiter follows is not an error.  If the content has no open          *)
(* delimiter followed later by a close delimiter, the replacer succeeds    *)
(* and returns the content unchanged with changed = false.  If resolvable  *)
(* tokens precede an unclosed open delimiter, the replacer succeeds, the   *)
(* tokens are substituted, and the output ends with the content from the   *)
(* unclosed open delimiter on.                                             *)
(***************************************************************************)
C21_UnclosedOpenPassesThrough ==
    \A p \in Paths :
        Replaced(p) =>
            LET txt == disk0[p]
                ref == loopReplacer(txt, mapping)
                opens == UnclosedOpens(txt)
            IN  /\ ~OpenThenClose(txt) =>
                      rres[p].ok /\ rres[p].out = txt /\ ~rres[p].changed
                /\ opens # {} /\ ref.ok /\ ref.changed =>
                      LET u == CHOOSE i \in opens : \A j \in opens : i <= j
                          keep == SliceFrom(txt, u)
                      IN  /\ rres[p].ok
                          /\ rres[p].out = ref.out
                          /\ Len(rres[p].out) >= Len(keep)
                          /\ SliceFrom(rres[p].out, Len(rres[p].out) - Len(keep)) = keep

(***************************************************************************)
(* C22 (checked under SpecRace).  Every failure while a worker processes   *)
(* a file, also the file disappearing between the read of its content and  *)
(* the capture of its permission bits, becomes an error for that path in   *)
(* the result; no worker ever crashes the program; and once processFiles   *)
(* has returned every path that was sent was processed.                    *)
(***************************************************************************)
C22_FailuresAreRecorded ==
    /\ Alive
    /\ Done =>
          /\ \A p \in Paths : tree[p].type = "gone" => ErrCount(result, p) = 1
          /\ \A p \in Paths : procd[p] = sent[p]

=============================================================================
